---- MODULE Spec2Model ----
(***************************************************************************)
(* State-machine model of the N-Queens genetic-algorithm worker            *)
(* (src/src/algorithms/nQueensWorker.ts).                                  *)
(*                                                                         *)
(* A genome is a TLA+ sequence; position i of the JavaScript array is      *)
(* index i + 1 of the sequence, the stored values are the JavaScript       *)
(* values (columns 0 .. n-1).  Math.random() is an input: every call site  *)
(* takes its draw as a parameter.  Rates are held in percent (0 .. 100)    *)
(* and a draw of Math.random() compared with a rate is a percent too.      *)
(***************************************************************************)
EXTENDS Integers, Sequences, FiniteSets, TLC

\* ------------------------------------------------------------------ bounds

\* Largest board of the operator harness (HarnessSpec).
MaxN == 4
\* Largest maxGenerations a parameter payload carries.
MaxGen == 2
\* Cap on the generation counter (start on a terminated engine keeps counting).
MaxGeneration == 3
\* Cap on the number of deferred callbacks pending at once.
MaxPending == 2

\* The validator's lower bound of boardSize: the smallest board the caller sends.
MinBoardSize == 4

\* ----------------------------------------------------------------- helpers

Abs(x) == IF x < 0 THEN -x ELSE x

Min(a, b) == IF a <= b THEN a ELSE b

Max(a, b) == IF a >= b THEN a ELSE b

\* JavaScript Array.prototype.includes on a sequence.
Includes(s, v) == \E i \in 1..Len(s) : s[i] = v

\* s with the element at index i (1-based) removed: Array.prototype.splice(i, 1).
Splice(s, i) == [k \in 1..(Len(s) - 1) |-> IF k < i THEN s[k] ELSE s[k + 1]]

\* The sequences that hold each value of 0 .. n-1 exactly once.
IsPermutation(g, n) ==
    /\ Len(g) = n
    /\ \A v \in 0..(n - 1) : \E i \in 1..n : g[i] = v

Perms(n) == {g \in [1..n -> 0..(n - 1)] : IsPermutation(g, n)}

\* Draws of Math.random() compared with a rate, in percent of [0, 1).
RateDraws == {0, 50, 99}

\* -------------------------------------------------------- individual factory

\* The random indices one call of createRandomIndividual can draw:
\* iteration i (1-based) draws floor(random * available.length), 0 .. n-i.
IndexDraws(n) == {d \in [1..n -> 0..(n - 1)] : \A i \in 1..n : d[i] <= n - i}

RECURSIVE drawWithoutReplacement(_, _, _)
drawWithoutReplacement(available, draws, i) ==
    IF i > Len(draws) THEN <<>>
    ELSE <<available[draws[i] + 1]>>
           \o drawWithoutReplacement(Splice(available, draws[i] + 1), draws, i + 1)

\* Legacy factory: every gene drawn independently, nothing removed.
createRandomIndividual_independent(n, draws) ==
    [genome |-> [i \in 1..n |-> draws[i]], fitness |-> 0]

createRandomIndividual(n, draws) ==
    [genome |-> drawWithoutReplacement([i \in 1..n |-> i - 1], draws, 1),
     fitness |-> 0]

\* ---------------------------------------------------------- fitness evaluator

maxPairs(n) == (n * (n - 1)) \div 2

conflicts(genome) ==
    Cardinality({p \in (1..Len(genome)) \X (1..Len(genome)) :
        /\ p[1] < p[2]
        /\ \/ genome[p[1]] = genome[p[2]]
           \/ Abs(p[1] - p[2]) = Abs(genome[p[1]] - genome[p[2]])})

\* Mutant of the conflict test: only the column conflict is counted.
calculateFitness_columnsOnly(genome) ==
    maxPairs(Len(genome))
      - Cardinality({p \in (1..Len(genome)) \X (1..Len(genome)) :
                        p[1] < p[2] /\ genome[p[1]] = genome[p[2]]})

\* Mutant of the pair loop: j starts at 0, every attacking pair is met twice.
calculateFitness_bothOrders(genome) == maxPairs(Len(genome)) - 2 * conflicts(genome)

calculateFitness(genome) == maxPairs(Len(genome)) - conflicts(genome)

\* The permutation genomes of the model's board.
BoardGenomes == Perms(MinBoardSize)

\* calculateFitness, tabulated once for the genomes of the model's board.
FitnessTable == [g \in BoardGenomes |-> calculateFitness(g)] @@ <<>>

Fitness(genome) ==
    IF genome \in BoardGenomes THEN FitnessTable[genome] ELSE calculateFitness(genome)

\* Mutant of the evaluation: the cached fitness is left as it is.
evaluatePopulation_skip(pop) == pop

\* population[i].fitness = calculateFitness(population[i].genome), for every i.
evaluatePopulation(pop) ==
    [i \in 1..Len(pop) |-> [genome |-> pop[i].genome, fitness |-> Fitness(pop[i].genome)]]

\* ------------------------------------------------------------------ selection

RECURSIVE SumFitness(_, _)
SumFitness(pop, i) ==
    IF i > Len(pop) THEN 0 ELSE pop[i].fitness + SumFitness(pop, i + 1)

totalFitnessOf(pop) == SumFitness(pop, 1)

\* Mutant of the walk: stops only once the value left is negative.
RECURSIVE rouletteWalk_strict(_, _, _)
rouletteWalk_strict(pop, value, i) ==
    IF i > Len(pop) THEN Len(pop)
    ELSE IF value - pop[i].fitness < 0 THEN i
    ELSE rouletteWalk_strict(pop, value - pop[i].fitness, i + 1)

\* The walk of rouletteWheelSelection from position i (1-based) with the value
\* left; falls through to the last individual.
RECURSIVE rouletteWalk(_, _, _)
rouletteWalk(pop, value, i) ==
    IF i > Len(pop) THEN Len(pop)
    ELSE IF value - pop[i].fitness <= 0 THEN i
    ELSE rouletteWalk(pop, value - pop[i].fitness, i + 1)

\* Index (1-based) of the individual rouletteWheelSelection returns.  idx is
\* floor(random * length), drawn when totalFitness is 0.  value stands for
\* random * totalFitness rounded up to an integer: the running total is
\* compared with integers only, so the walk stops at the same individual.
rouletteWheelSelection(pop, idx, value) ==
    IF totalFitnessOf(pop) = 0 THEN idx + 1 ELSE rouletteWalk(pop, value, 1)

\* The draws of one roulette-wheel call: <<idx, value>>.
RouletteDraws(pop) ==
    IF totalFitnessOf(pop) = 0
    THEN {<<i, 0>> : i \in 0..(Len(pop) - 1)}
    ELSE {<<0, v>> : v \in 0..totalFitnessOf(pop)}

\* Mutant of the scan: a later contestant wins when at least as fit.
RECURSIVE tournamentScan_lastWins(_, _, _, _)
tournamentScan_lastWins(pop, contestants, i, b) ==
    IF i > Len(contestants) THEN b
    ELSE IF b = 0 \/ pop[contestants[i] + 1].fitness >= pop[b].fitness
    THEN tournamentScan_lastWins(pop, contestants, i + 1, contestants[i] + 1)
    ELSE tournamentScan_lastWins(pop, contestants, i + 1, b)

\* The best of the contestants from position i on, best so far at index b
\* (0: none yet): a later contestant wins only when strictly fitter.
RECURSIVE tournamentScan(_, _, _, _)
tournamentScan(pop, contestants, i, b) ==
    IF i > Len(contestants) THEN b
    ELSE IF b = 0 \/ pop[contestants[i] + 1].fitness > pop[b].fitness
    THEN tournamentScan(pop, contestants, i + 1, contestants[i] + 1)
    ELSE tournamentScan(pop, contestants, i + 1, b)

\* Index (1-based) of the individual tournamentSelection returns; contestants
\* are the distinct indices (0-based) in the order they were accepted.
tournamentSelection(pop, contestants) == tournamentScan(pop, contestants, 1, 0)

\* The sampling loop of tournamentSelection on the draws idx = draws[i], ...:
\* an index already taken is drawn again, the others are accepted in order
\* until k are held.  Fewer than k come back when the draws given run out.
RECURSIVE sampleContestants(_, _, _, _)
sampleContestants(draws, i, accepted, k) ==
    IF Len(accepted) >= k \/ i > Len(draws) THEN accepted
    ELSE IF Includes(accepted, draws[i])
    THEN sampleContestants(draws, i + 1, accepted, k)
    ELSE sampleContestants(draws, i + 1, Append(accepted, draws[i]), k)

\* tournamentSelection on the raw draws of its sampling loop: the contestants
\* accepted and the index (1-based) of the individual returned.
tournamentOf(pop, tournamentSize, draws) ==
    LET c == sampleContestants(draws, 1, <<>>, Min(tournamentSize, Len(pop)))
    IN [contestants |-> c, index |-> tournamentSelection(pop, c)]

\* The contestant sequences one tournament can draw.
TournamentDraws(pop, tournamentSize) ==
    LET k == Min(tournamentSize, Len(pop)) IN
    {c \in [1..k -> 0..(Len(pop) - 1)] :
        \A i, j \in 1..k : i # j => c[i] # c[j]}

\* The indices (1-based) one call of the configured selection can return.
SelectableIndices(pop, p) ==
    IF p.selectionStrategy = "rouletteWheel"
    THEN {rouletteWheelSelection(pop, d[1], d[2]) : d \in RouletteDraws(pop)}
    ELSE {tournamentSelection(pop, c) : c \in TournamentDraws(pop, p.tournamentSize)}

\* ------------------------------------------------------------------- mutation

Swap(g, pos1, pos2) ==
    [i \in 1..Len(g) |->
        IF i = pos1 + 1 THEN g[pos2 + 1]
        ELSE IF i = pos2 + 1 THEN g[pos1 + 1]
        ELSE g[i]]

\* Legacy mutation: the gene at pos1 is overwritten by a random column (pos2).
mutate_overwrite(genome, mutationRate, u, pos1, pos2) ==
    IF u <= mutationRate
    THEN [i \in 1..Len(genome) |-> IF i = pos1 + 1 THEN pos2 ELSE genome[i]]
    ELSE genome

\* The genome after mutate: u is the draw compared with mutationRate, pos1 and
\* pos2 the two positions drawn (0-based, possibly equal).
mutate(genome, mutationRate, u, pos1, pos2) ==
    IF u <= mutationRate THEN Swap(genome, pos1, pos2) ELSE genome

\* ------------------------------------------------------------------ crossover

\* A call that never returns.
Diverges == [returned |-> FALSE, genome |-> <<>>]

Returns(g) == [returned |-> TRUE, genome |-> g]

\* The cut points one crossover can draw: point1 = floor(random * (n - 1)),
\* point2 = floor(random * (n - point1 - 1)) + point1 + 1.
CutPoints(n) ==
    {c \in (0..(n - 2)) \X (1..(n - 1)) : c[1] < c[2]}

\* Map.get on the mapping built from the segment: the value set last for key v,
\* -1 standing for undefined.
mappingGet(parent1, parent2, point1, point2, v) ==
    LET at == {i \in (point1 + 1)..(point2 + 1) : parent1[i] = v} IN
    IF at = {} THEN -1
    ELSE parent2[CHOOSE i \in at : \A j \in at : j <= i]

\* mapping.get(v) || v : undefined and 0 are both falsy.
mapOrSelf(parent1, parent2, point1, point2, v) ==
    LET m == mappingGet(parent1, parent2, point1, point2, v) IN
    IF m = -1 \/ m = 0 THEN v ELSE m

\* The while loop of the fill: the value it leaves, or -2 when it never ends
\* (the value stops changing, or the chain has gone round: fuel spent).
RECURSIVE followMapping(_, _, _, _, _, _, _)
followMapping(child, parent1, parent2, point1, point2, v, fuel) ==
    IF ~Includes(child, v) THEN v
    ELSE LET next == mapOrSelf(parent1, parent2, point1, point2, v) IN
         IF next = v \/ fuel = 0 THEN -2
         ELSE followMapping(child, parent1, parent2, point1, point2, next, fuel - 1)

\* The fill loop from position i (0-based) on.
RECURSIVE fillRemaining(_, _, _, _, _, _)
fillRemaining(child, parent1, parent2, point1, point2, i) ==
    IF i >= Len(child) THEN Returns(child)
    ELSE IF i >= point1 /\ i <= point2
    THEN fillRemaining(child, parent1, parent2, point1, point2, i + 1)
    ELSE LET v == followMapping(child, parent1, parent2, point1, point2,
                                parent2[i + 1], Len(child))
         IN IF v = -2 THEN Diverges
            ELSE fillRemaining([child EXCEPT ![i + 1] = v],
                               parent1, parent2, point1, point2, i + 1)

\* The two-point crossover of the legacy worker: parent2 outside the segment is
\* copied as it is, no mapping followed.
crossover_twoPoint(parent1, parent2, n, crossoverRate, u, point1, point2) ==
    IF u > crossoverRate THEN Returns(parent1)
    ELSE Returns([i \in 1..n |->
            IF i - 1 >= point1 /\ i - 1 <= point2 THEN parent1[i] ELSE parent2[i]])

\* Mutant of crossover: the parents change places.
crossover_swapped(parent1, parent2, n, crossoverRate, u, point1, point2) ==
    IF u > crossoverRate THEN Returns(parent1)
    ELSE fillRemaining(
            [i \in 1..n |->
                IF i - 1 >= point1 /\ i - 1 <= point2 THEN parent2[i] ELSE -1],
            parent2, parent1, point1, point2, 0)

\* crossover on the parents' genomes: u is the draw compared with crossoverRate.
crossover(parent1, parent2, n, crossoverRate, u, point1, point2) ==
    IF u > crossoverRate THEN Returns(parent1)
    ELSE fillRemaining(
            [i \in 1..n |->
                IF i - 1 >= point1 /\ i - 1 <= point2 THEN parent1[i] ELSE -1],
            parent1, parent2, point1, point2, 0)

\* ----------------------------------------------------------------- validation

validateGenome_always(genome) == TRUE

validateGenome(genome) ==
    /\ \A i \in 1..Len(genome) :
          /\ genome[i] >= 0
          /\ genome[i] < Len(genome)
          /\ \A j \in 1..(i - 1) : genome[j] # genome[i]

\* ----------------------------------------------------------------- parameters

Strategies == {"rouletteWheel", "tournament"}

\* The parameter payloads a caller sends: the smallest board the validator lets
\* through, a population of two, both strategies, every run length up to MaxGen.
ParamSet ==
    {[boardSize |-> MinBoardSize, populationSize |-> 2, selectionStrategy |-> s,
      tournamentSize |-> 2, crossoverRate |-> 50, mutationRate |-> 50,
      maxGenerations |-> g] : s \in Strategies, g \in 1..MaxGen}

\* The parameters the module is loaded with, scaled to the model's sizes.
DefaultParams ==
    [boardSize |-> MinBoardSize, populationSize |-> 2,
     selectionStrategy |-> "rouletteWheel", tournamentSize |-> 2,
     crossoverRate |-> 50, mutationRate |-> 50, maxGenerations |-> MaxGen]

\* The parameter values the engine can hold.
EngineParams == ParamSet \cup {DefaultParams}

\* The parameters reproduction reads: all but the run length.
Reproduction(p) ==
    [boardSize |-> p.boardSize, populationSize |-> p.populationSize,
     selectionStrategy |-> p.selectionStrategy, tournamentSize |-> p.tournamentSize,
     crossoverRate |-> p.crossoverRate, mutationRate |-> p.mutationRate]

ReproductionParams == {Reproduction(p) : p \in EngineParams}

\* The index draws the factory is given in the engine's runs.  On the board of
\* four they yield the solved board 1302 and the unsolved board 1203.
FactoryDraws(n) ==
    {d \in IndexDraws(n) :
        \/ \A i \in 1..n : d[i] = (IF i = 1 THEN 1 ELSE IF i = 2 THEN n - 2 ELSE 0)
        \/ \A i \in 1..n : d[i] = (IF i = 1 THEN 1 ELSE IF i = 2 THEN 1 ELSE 0)}

\* bestSolution = null
Null == [genome |-> <<>>, fitness |-> -1]

\* ------------------------------------------------------------ initialization

\* The individuals createRandomIndividual returns in the engine's runs.
FreshIndividuals(n) == {createRandomIndividual(n, d) : d \in FactoryDraws(n)}

\* Mutant of the loop bound: one individual short.
initializePopulation_short(p) ==
    {evaluatePopulation(pop) :
       pop \in [1..(p.populationSize - 1) -> FreshIndividuals(p.boardSize)]}

\* The populations initializePopulation can build: populationSize factory
\* individuals, evaluated.
initializePopulation(p) ==
    {evaluatePopulation(pop) :
       pop \in [1..p.populationSize -> FreshIndividuals(p.boardSize)]}

\* initializePopulation, tabulated once for the parameters of the model.
InitialPopulationsTable == [p \in EngineParams |-> initializePopulation(p)] @@ <<>>

InitialPopulations(p) ==
    IF p \in EngineParams THEN InitialPopulationsTable[p] ELSE initializePopulation(p)

\* ------------------------------------------------------ double multiplication

RECURSIVE Repeat(_, _)
Repeat(s, k) == IF k = 0 THEN <<>> ELSE s \o Repeat(s, k - 1)

Reverse(s) == [i \in 1..Len(s) |-> s[Len(s) + 1 - i]]

\* The constants 0.7 = 0x3FE6666666666666, 0.3 = 0x3FD3333333333333 and
\* 0.1 = 0x3FB999999999999A as doubles: the 53 significant bits, least
\* significant first, and the power of two they are scaled down by.
Double07 == [bits |-> Reverse(<<1>> \o Repeat(<<0, 1, 1, 0>>, 13)), scale |-> 53]

Double03 == [bits |-> Reverse(<<1>> \o Repeat(<<0, 0, 1, 1>>, 13)), scale |-> 54]

Double01 ==
    [bits |-> Reverse(<<1>> \o Repeat(<<1, 0, 0, 1>>, 12) \o <<1, 0, 1, 0>>),
     scale |-> 56]

\* The exact product of the integer n >= 1 and a bit string, as a bit string.
RECURSIVE timesBits(_, _, _, _)
timesBits(bits, n, i, carry) ==
    IF i > Len(bits)
    THEN IF carry = 0 THEN <<>>
         ELSE <<carry % 2>> \o timesBits(bits, n, i, carry \div 2)
    ELSE LET t == n * bits[i] + carry
         IN <<t % 2>> \o timesBits(bits, n, i + 1, t \div 2)

\* A bit string plus one.
RECURSIVE plusOne(_, _)
plusOne(bits, i) ==
    IF i > Len(bits) THEN Append([j \in 1..Len(bits) |-> 0], 1)
    ELSE IF bits[i] = 0 THEN [bits EXCEPT ![i] = 1]
    ELSE plusOne([bits EXCEPT ![i] = 0], i + 1)

\* The rounding of an exact product to the 53 significant bits of a double,
\* ties to even: the bits kept and the number of low bits dropped.
roundToDouble(product) ==
    IF Len(product) <= 53 THEN [bits |-> product, dropped |-> 0]
    ELSE LET s == Len(product) - 53
             kept == SubSeq(product, s + 1, Len(product))
             above == \E i \in 1..(s - 1) : product[i] = 1
             up == product[s] = 1 /\ (above \/ kept[1] = 1)
         IN [bits |-> IF up THEN plusOne(kept, 1) ELSE kept, dropped |-> s]

\* The number a bit string holds from bit i up.
RECURSIVE valueOf(_, _)
valueOf(bits, i) ==
    IF i > Len(bits) THEN 0 ELSE bits[i] + 2 * valueOf(bits, i + 1)

\* Math.floor(n * c) for the integer n >= 0 and the double constant c.
floorProduct(n, c) ==
    IF n = 0 THEN 0
    ELSE LET r == roundToDouble(timesBits(c.bits, n, 1, 0))
         IN valueOf(r.bits, c.scale - r.dropped + 1)

\* floorProduct, tabulated once for the sizes of the model's populations.
TabulatedSizes == 0..100

Floor07Table == [n \in TabulatedSizes |-> floorProduct(n, Double07)] @@ <<>>

Floor03Table == [n \in TabulatedSizes |-> floorProduct(n, Double03)] @@ <<>>

Floor01Table == [n \in TabulatedSizes |-> floorProduct(n, Double01)] @@ <<>>

\* Math.floor(n * 0.7)
floorTimes07(n) == IF n \in TabulatedSizes THEN Floor07Table[n] ELSE floorProduct(n, Double07)

\* Math.floor(n * 0.3)
floorTimes03(n) == IF n \in TabulatedSizes THEN Floor03Table[n] ELSE floorProduct(n, Double03)

\* Math.floor(n * 0.1)
floorTimes01(n) == IF n \in TabulatedSizes THEN Floor01Table[n] ELSE floorProduct(n, Double01)

\* ------------------------------------------------------------- new generation

\* Mutant of the sort: the population in the order it stands in.
sortedPopulation_unsorted(pop) == pop

\* [...population].sort((a, b) => b.fitness - a.fitness): descending, stable.
RECURSIVE sortedPopulation(_)
sortedPopulation(pop) ==
    IF pop = <<>> THEN <<>>
    ELSE LET best == CHOOSE i \in 1..Len(pop) :
                        /\ \A j \in 1..Len(pop) : pop[j].fitness <= pop[i].fitness
                        /\ \A j \in 1..(i - 1) : pop[j].fitness < pop[i].fitness
         IN <<pop[best]>> \o sortedPopulation(Splice(pop, best))

eliteCount(p) == Max(1, floorTimes01(p.populationSize))

\* What crossover can return for two parent genomes, over all its draws.
crossoverAll(g1, g2, p) ==
    UNION {{crossover(g1, g2, p.boardSize, p.crossoverRate, u, c[1], c[2]) :
              c \in CutPoints(p.boardSize)} : u \in RateDraws}

\* The genomes mutate can leave, over all its draws.
mutateAll(genome, p) ==
    UNION {{mutate(genome, p.mutationRate, u, pos[1], pos[2]) :
              pos \in (0..(p.boardSize - 1)) \X (0..(p.boardSize - 1))}
           : u \in RateDraws}

\* The genomes pushed for one child: each mutated child, or a fresh random
\* individual where validateGenome rejects it.
pushedFor(genome, p) ==
    UNION {IF validateGenome(m) THEN {m}
           ELSE {x.genome : x \in FreshIndividuals(p.boardSize)} :
           m \in mutateAll(genome, p)}

\* One pass of the reproduction loop for parents g1, g2: whether crossover can
\* fail to return, and the genomes that can be pushed when it returns.
offspringOf(g1, g2, p) ==
    LET outcomes == crossoverAll(g1, g2, p) IN
    [diverges |-> Diverges \in outcomes,
     genomes |-> UNION {pushedFor(o.genome, p) : o \in {x \in outcomes : x.returned}}]

\* offspringOf, tabulated once for the permutation parents of the model.
OffspringTable ==
    [k \in BoardGenomes \X BoardGenomes \X ReproductionParams |->
        offspringOf(k[1], k[2], k[3])] @@ <<>>

Offspring(g1, g2, p) ==
    IF /\ g1 \in BoardGenomes
       /\ g2 \in BoardGenomes
       /\ Reproduction(p) \in ReproductionParams
    THEN OffspringTable[<<g1, g2, Reproduction(p)>>]
    ELSE offspringOf(g1, g2, p)

\* The genomes selectParents can hand to crossover.
ParentGenomes(pop, p) == {pop[i].genome : i \in SelectableIndices(pop, p)}

\* The genomes one pass of the reproduction loop can push.
ChildGenomes(pop, p) ==
    LET sel == ParentGenomes(pop, p) IN
    UNION {Offspring(g1, g2, p).genomes : g1 \in sel, g2 \in sel}

\* Whether some draw makes a crossover of the reproduction loop never return.
CanDiverge(pop, p) ==
    /\ eliteCount(p) < p.populationSize
    /\ \E g1 \in ParentGenomes(pop, p), g2 \in ParentGenomes(pop, p) :
          Offspring(g1, g2, p).diverges

\* The individuals whose fitness is within 0.001 of the average fitness
\* totalFitness / length (lengths below 1000: the nearest other fitness is
\* 1 / length away).
sameCount(pop) ==
    LET totalFitness == totalFitnessOf(pop) IN
    Cardinality({i \in 1..Len(pop) :
        Abs(pop[i].fitness * Len(pop) - totalFitness) * 1000 < Len(pop)})

\* sameCount > population.length * 0.7, the product being a double: an
\* integer exceeds it exactly when it exceeds its floor.
lowDiversity(pop) == sameCount(pop) > floorTimes07(Len(pop))

replaceCount(pop) == floorTimes03(Len(pop))

\* replaceIndex for r = Math.floor(Math.random() * (length - 1)), written to
\* index 0 as well (mutant).
replaceIndexOf_any(r) == r

\* replaceIndex = Math.floor(Math.random() * (length - 1)) + 1
replaceIndexOf(r) == r + 1

\* The draws one pass of the replacement loop can make: the factory's
\* individual and r = Math.floor(Math.random() * (length - 1)).
ReplacementDraws(pop, p) ==
    {[individual |-> x, r |-> r] :
        x \in FreshIndividuals(p.boardSize), r \in 0..(Len(pop) - 2)}

\* The replacement loop from pass i on: the individual drawn, evaluated, is
\* written at replaceIndex.
RECURSIVE replaceDrawn(_, _, _)
replaceDrawn(pop, draws, i) ==
    IF i > Len(draws) THEN pop
    ELSE replaceDrawn(
            [pop EXCEPT ![replaceIndexOf(draws[i].r) + 1] =
                [genome |-> draws[i].individual.genome,
                 fitness |-> Fitness(draws[i].individual.genome)]],
            draws, i + 1)

\* checkAndMaintainDiversity on the draws of its replacement loop, one for
\* each of the replaceCount passes.
checkAndMaintainDiversityWith(pop, draws) ==
    IF lowDiversity(pop) THEN replaceDrawn(pop, draws, 1) ELSE pop

\* checkAndMaintainDiversity: the populations it can leave, over all draws.
checkAndMaintainDiversity(pop, p) ==
    IF lowDiversity(pop)
    THEN {checkAndMaintainDiversityWith(pop, draws) :
            draws \in [1..replaceCount(pop) -> ReplacementDraws(pop, p)]}
    ELSE {checkAndMaintainDiversityWith(pop, <<>>)}

\* The elite prefix of the new population: copies of the top individuals.
elites(pop, p) ==
    SubSeq(sortedPopulation(pop), 1, Min(eliteCount(p), Len(pop)))

\* createNewGeneration up to evaluatePopulation(), on the elites and the
\* genomes its loop pushes after them: the new population, evaluated.
reproduceWith(e, kids) ==
    evaluatePopulation(e \o [i \in 1..Len(kids) |-> [genome |-> kids[i], fitness |-> 0]])

\* The populations createNewGeneration can leave when every crossover returns.
createNewGeneration(pop, p) ==
    LET e == elites(pop, p) IN
    UNION {checkAndMaintainDiversity(reproduceWith(e, kids), p) :
             kids \in [1..Max(0, p.populationSize - Len(e)) -> ChildGenomes(pop, p)]}

\* The evaluated populations of the model's size over the model's board.
ModelPopulations ==
    {evaluatePopulation(pop) :
       pop \in [1..2 -> {[genome |-> g, fitness |-> 0] : g \in BoardGenomes}]}

\* createNewGeneration and CanDiverge, tabulated once for the model's populations.
GenerationTable ==
    [k \in ModelPopulations \X ReproductionParams |->
        [populations |-> createNewGeneration(k[1], k[2]),
         diverges |-> CanDiverge(k[1], k[2])]] @@ <<>>

NewGeneration(pop, p) ==
    IF pop \in ModelPopulations /\ Reproduction(p) \in ReproductionParams
    THEN GenerationTable[<<pop, Reproduction(p)>>]
    ELSE [populations |-> createNewGeneration(pop, p), diverges |-> CanDiverge(pop, p)]

\* ------------------------------------------------------------------ statistics

\* Mutant of the scan: fitness >= bestFitness, the last of the fittest wins.
bestIndexOf_last(pop) ==
    CHOOSE i \in 1..Len(pop) :
        /\ \A j \in 1..Len(pop) : pop[j].fitness <= pop[i].fitness
        /\ \A j \in (i + 1)..Len(pop) : pop[j].fitness < pop[i].fitness

\* bestIndex of calculateStatistics (1-based): the first individual of maximum
\* fitness.
bestIndexOf(pop) ==
    CHOOSE i \in 1..Len(pop) :
        /\ \A j \in 1..Len(pop) : pop[j].fitness <= pop[i].fitness
        /\ \A j \in 1..(i - 1) : pop[j].fitness < pop[i].fitness

worstFitnessOf(pop) ==
    LET i == CHOOSE k \in 1..Len(pop) :
                \A j \in 1..Len(pop) : pop[k].fitness <= pop[j].fitness
    IN pop[i].fitness

\* What the loop of calculateStatistics leaves in its locals.
scanOf(pop) ==
    [bestIndex |-> bestIndexOf(pop), bestFitness |-> pop[bestIndexOf(pop)].fitness,
     worstFitness |-> worstFitnessOf(pop), totalFitness |-> totalFitnessOf(pop)]

\* scanOf, tabulated once for the model's populations.
ScanTable == [pop \in ModelPopulations |-> scanOf(pop)] @@ <<>>

Scan(pop) == IF pop \in ModelPopulations THEN ScanTable[pop] ELSE scanOf(pop)

\* Mutant of the best-ever update: replaces on every call.
replacesBest_always(best, bestFitness) == TRUE

\* The test guarding the update of bestSolution.
replacesBest(best, bestFitness) == best = Null \/ bestFitness > best.fitness

\* bestSolution after calculateStatistics.
bestAfter(pop, best) ==
    IF replacesBest(best, Scan(pop).bestFitness)
    THEN pop[Scan(pop).bestIndex] ELSE best

\* Mutant of the solved test: one attacking pair still counts as solved.
isSolved_nearly(bestFitness, n) == bestFitness >= maxPairs(n) - 1

\* const solved = bestFitness === maxPairs, maxPairs taken from params.boardSize.
isSolved(bestFitness, n) == bestFitness = maxPairs(n)

\* The GenerationStats calculateStatistics returns; averageFitness is kept as
\* the exact fraction totalFitness / population.length.
calculateStatistics(pop, p, gen) ==
    LET s == Scan(pop) IN
    [generation |-> gen,
     bestFitness |-> s.bestFitness,
     averageFitness |-> [num |-> s.totalFitness, den |-> Len(pop)],
     worstFitness |-> s.worstFitness,
     bestGenome |-> pop[s.bestIndex].genome,
     solved |-> isSolved(s.bestFitness, p.boardSize)]

\* --------------------------------------------------------------------- events

StatsEvent(stats) == [type |-> "stats", data |-> stats]

SolutionEvent(ind) == [type |-> "solution", data |-> ind]

ErrorEvent == [type |-> "error", data |-> [message |-> "Unknown message type"]]

\* ---------------------------------------------------------------------- state

VARIABLES
    running,        \* the worker's running flag
    params,         \* the parameters in force
    population,     \* the current population
    generation,     \* the generation counter
    bestSolution,   \* the best individual seen, Null for null
    pending,        \* deferred runGeneticAlgorithm callbacks not yet fired
    hung,           \* the worker is inside a call that never returns
    emitted,        \* the events posted by the task that ran last
    lastMsg,        \* the type of the message handled last
    task,           \* the task that ran last: a message type or "timer"
    newParams,      \* the params field of the message handled last, if read
    statsBest,      \* greatest bestFitness posted since the last init or reset
    stepBest,       \* bestFitness posted by the last step since then, -1: none
    inbox,          \* messages posted to the worker and not yet handled
    outbox,         \* events posted by the worker and not yet delivered
    hook,           \* the state useNQueensWorker holds for its caller
    awaiting,       \* reset() was called and no run begun after it has ended
    call,           \* operator harness: the call made
    ret             \* operator harness: what it returned

engine == <<running, params, population, generation, bestSolution>>

vars == <<running, params, population, generation, bestSolution, pending, hung,
          emitted, lastMsg, task, newParams, statsBest, stepBest,
          inbox, outbox, hook, awaiting, call, ret>>

channel == <<inbox, outbox, hook, awaiting>>

worker == <<running, params, population, generation, bestSolution, pending, hung,
            emitted, lastMsg, task, newParams, statsBest, stepBest, call, ret>>

observed == <<statsBest, stepBest>>

harness == <<call, ret>>

NoCall == [op |-> "none"]

\* A message without a params field.
NoPayload == [none |-> TRUE]

\* useState: isRunning false, stats null, solution null, error null.
HookMounted == [isRunning |-> FALSE, stats |-> Null, solution |-> Null, error |-> Null]

\* The worker module as loaded.
WorkerLoaded ==
    /\ running = FALSE
    /\ params = DefaultParams
    /\ population = <<>>
    /\ generation = 0
    /\ bestSolution = Null
    /\ pending = 0
    /\ hung = FALSE
    /\ emitted = <<>>
    /\ lastMsg = "none"
    /\ task = "none"
    /\ newParams = NoPayload
    /\ statsBest = -1
    /\ stepBest = -1
    /\ call = NoCall
    /\ ret = NoCall

Init ==
    /\ WorkerLoaded
    /\ inbox = <<>>
    /\ outbox = <<>>
    /\ hook = HookMounted
    /\ awaiting = FALSE

\* ------------------------------------------------------------ generation step

\* Mutant of the stop test: stops only once the counter has passed the limit.
shouldStop_after(stats, gen, p) == stats.solved \/ gen > p.maxGenerations

\* The stop test of runGeneticAlgorithm.
shouldStop(stats, gen, p) == stats.solved \/ gen >= p.maxGenerations

\* Mutant of the guard: the callback steps whatever the flag says.
keepsRunning_always(run) == TRUE

\* The guard of runGeneticAlgorithm: if (!running) return.
keepsRunning(run) == run

\* Mutant of the counter: a step counts for two.
nextGeneration_skip(gen) == gen + 2

\* generation++
nextGeneration(gen) == gen + 1

\* What one call of runGeneticAlgorithm can leave, from the engine state given:
\* the new engine state, the events posted, the callbacks scheduled (0 or 1),
\* and whether the call is stuck inside crossover.
runGeneticAlgorithm(run, pop, p, gen, best) ==
    IF ~keepsRunning(run)
    THEN {[running |-> run, population |-> pop, generation |-> gen,
           bestSolution |-> best, emitted |-> <<>>, scheduled |-> 0,
           hung |-> FALSE]}
    ELSE {[running |-> run, population |-> pop, generation |-> nextGeneration(gen),
           bestSolution |-> best, emitted |-> <<>>, scheduled |-> 0,
           hung |-> TRUE] : x \in {y \in {0} : CanDiverge(pop, p)}}
         \cup
         {LET stats == calculateStatistics(np, p, nextGeneration(gen))
              nb == bestAfter(np, best)
          IN IF shouldStop(stats, nextGeneration(gen), p)
             THEN [running |-> FALSE, population |-> np, generation |-> nextGeneration(gen),
                   bestSolution |-> nb,
                   emitted |-> <<StatsEvent(stats), SolutionEvent(nb)>>,
                   scheduled |-> 0, hung |-> FALSE]
             ELSE [running |-> run, population |-> np, generation |-> nextGeneration(gen),
                   bestSolution |-> nb, emitted |-> <<StatsEvent(stats)>>,
                   scheduled |-> 1, hung |-> FALSE] :
          np \in NewGeneration(pop, p).populations}

\* The bestFitness of the stats event among the events posted, -1 for none.
postedBest(events) ==
    IF \E i \in 1..Len(events) : events[i].type = "stats"
    THEN events[CHOOSE i \in 1..Len(events) : events[i].type = "stats"].data.bestFitness
    ELSE -1

\* The model's caps: the step may run only below them.
WithinCaps(o) ==
    /\ o.generation <= MaxGeneration
    /\ pending + o.scheduled <= MaxPending

\* -------------------------------------------------------------------- messages

\* The params field a message can carry.
Payloads == ParamSet \cup {NoPayload}

\* Mutant of the assignment: the payload is dropped.
paramsAfter_keep(current, payload) == current

\* if (newParams) { params = newParams; }
paramsAfter(current, payload) == IF payload = NoPayload THEN current ELSE payload

\* generation = 0; bestSolution = null; initializePopulation();
\* calculateStatistics(): the populations that can result, each with the
\* best-ever individual and the statistics computed from it.
initializedFrom(p) ==
    {[population |-> pop, bestSolution |-> bestAfter(pop, Null),
      stats |-> calculateStatistics(pop, p, 0)] : pop \in InitialPopulations(p)}

InitializedTable == [p \in EngineParams |-> initializedFrom(p)] @@ <<>>

Initialized(p) ==
    IF p \in EngineParams THEN InitializedTable[p] ELSE initializedFrom(p)

\* case "init", for the params field the message carries
HandleInit(payload) ==
    /\ ~hung
    /\ \E p \in {paramsAfter(params, payload)} :
         \E fresh \in Initialized(p) :
            /\ newParams' = payload
            /\ params' = p
            /\ generation' = 0
            /\ population' = fresh.population
            /\ bestSolution' = fresh.bestSolution
            /\ emitted' = <<StatsEvent(fresh.stats)>>
            /\ statsBest' = fresh.stats.bestFitness
            /\ stepBest' = -1
    /\ lastMsg' = "init"
    /\ task' = "init"
    /\ UNCHANGED <<running, pending, hung, harness>>

\* An init message reaches the worker.
InitMsg ==
    /\ \E payload \in Payloads : HandleInit(payload)
    /\ UNCHANGED channel

\* case "start"
HandleStart ==
    /\ ~hung
    /\ \E pop \in (IF generation = 0 THEN InitialPopulations(params)
                   ELSE {population}) :
       \E o \in runGeneticAlgorithm(TRUE, pop, params, generation, bestSolution) :
            /\ WithinCaps(o)
            /\ running' = o.running
            /\ population' = o.population
            /\ generation' = o.generation
            /\ bestSolution' = o.bestSolution
            /\ emitted' = o.emitted
            /\ pending' = pending + o.scheduled
            /\ hung' = o.hung
            /\ statsBest' = Max(statsBest, postedBest(o.emitted))
            /\ stepBest' = IF o.emitted = <<>> THEN stepBest ELSE postedBest(o.emitted)
    /\ newParams' = NoPayload
    /\ lastMsg' = "start"
    /\ task' = "start"
    /\ UNCHANGED <<params, harness>>

\* A start message reaches the worker.
StartMsg == HandleStart /\ UNCHANGED channel

\* case "pause"
HandlePause ==
    /\ ~hung
    /\ running' = FALSE
    /\ emitted' = <<>>
    /\ lastMsg' = "pause"
    /\ task' = "pause"
    /\ newParams' = NoPayload
    /\ UNCHANGED <<params, population, generation, bestSolution, pending, hung,
                   observed, harness>>

\* A pause message reaches the worker.
PauseMsg == HandlePause /\ UNCHANGED channel

\* case "reset", for the params field the message carries
HandleReset(payload) ==
    /\ ~hung
    /\ \E p \in {paramsAfter(params, payload)} :
         \E fresh \in Initialized(p) :
            /\ newParams' = payload
            /\ params' = p
            /\ generation' = 0
            /\ population' = fresh.population
            /\ bestSolution' = fresh.bestSolution
            /\ emitted' = <<StatsEvent(fresh.stats)>>
            /\ statsBest' = fresh.stats.bestFitness
            /\ stepBest' = -1
    /\ running' = FALSE
    /\ lastMsg' = "reset"
    /\ task' = "reset"
    /\ UNCHANGED <<pending, hung, harness>>

\* A reset message reaches the worker.
ResetMsg ==
    /\ \E payload \in Payloads : HandleReset(payload)
    /\ UNCHANGED channel

\* Mutant of the default case: the error also clears the running flag.
OtherMsg_stops ==
    /\ ~hung
    /\ emitted' = <<ErrorEvent>>
    /\ running' = FALSE
    /\ lastMsg' = "other"
    /\ task' = "other"
    /\ newParams' = NoPayload
    /\ UNCHANGED <<params, population, generation, bestSolution, pending, hung,
                   observed, harness, channel>>

\* default: any other message type
HandleOther ==
    /\ ~hung
    /\ emitted' = <<ErrorEvent>>
    /\ lastMsg' = "other"
    /\ task' = "other"
    /\ newParams' = NoPayload
    /\ UNCHANGED <<engine, pending, hung, observed, harness>>

\* A message of any other type reaches the worker.
OtherMsg == HandleOther /\ UNCHANGED channel

\* A deferred callback runs: setTimeout(runGeneticAlgorithm, 0).
RunCallback ==
    /\ ~hung
    /\ pending > 0
    /\ \E o \in runGeneticAlgorithm(running, population, params, generation,
                                    bestSolution) :
            /\ o.generation <= MaxGeneration
            /\ running' = o.running
            /\ population' = o.population
            /\ generation' = o.generation
            /\ bestSolution' = o.bestSolution
            /\ emitted' = o.emitted
            /\ pending' = pending - 1 + o.scheduled
            /\ hung' = o.hung
            /\ statsBest' = Max(statsBest, postedBest(o.emitted))
            /\ stepBest' = IF o.emitted = <<>> THEN stepBest ELSE postedBest(o.emitted)
    /\ newParams' = NoPayload
    /\ task' = "timer"
    /\ UNCHANGED <<params, lastMsg, harness>>

\* A deferred callback fires.
TimerFires == RunCallback /\ UNCHANGED channel

Next ==
    \/ InitMsg
    \/ StartMsg
    \/ PauseMsg
    \/ ResetMsg
    \/ OtherMsg
    \/ TimerFires

Spec == Init /\ [][Next]_vars

\* --------------------------------------------------------- parameter validator

\* A JavaScript value of a parameter field: a number (NaN or an integer; a rate
\* is held in percent) or, with str, the string that Number() converts to it.
Num(v) == [str |-> FALSE, nan |-> FALSE, val |-> v]

NaN == [str |-> FALSE, nan |-> TRUE, val |-> 0]

Str(number) == [number EXCEPT !.str = TRUE]

\* Number(x)
ToNumber(x) == [x EXCEPT !.str = FALSE]

\* Math.min and Math.max convert their arguments and return NaN if one is NaN.
MathMin(a, b) ==
    IF ToNumber(a).nan \/ ToNumber(b).nan THEN NaN ELSE Num(Min(a.val, b.val))

MathMax(a, b) ==
    IF ToNumber(a).nan \/ ToNumber(b).nan THEN NaN ELSE Num(Max(a.val, b.val))

NumericFields ==
    {"boardSize", "populationSize", "tournamentSize", "crossoverRate",
     "mutationRate", "maxGenerations"}

\* The literals validateParams clamps each field with.
ClampBounds ==
    [boardSize |-> <<MinBoardSize, 50>>, populationSize |-> <<10, 1000>>,
     tournamentSize |-> <<2, 20>>, crossoverRate |-> <<0, 100>>,
     mutationRate |-> <<0, 100>>, maxGenerations |-> <<10, 100000>>]

\* sanitizeParams: every numeric field present is passed through Number().
sanitizeParams(p) ==
    [f \in DOMAIN p |-> IF f \in NumericFields THEN ToNumber(p[f]) ELSE p[f]]

\* validateParams: every numeric field present becomes
\* Math.max(low, Math.min(high, value)); the other fields are copied.
validateParams(p) ==
    [f \in DOMAIN p |->
        IF f \in NumericFields
        THEN MathMax(Num(ClampBounds[f][1]), MathMin(Num(ClampBounds[f][2]), p[f]))
        ELSE p[f]]

\* ------------------------------------------------------------ operator harness

\* The most fields one partial parameter object of the harness holds.
MaxFields == 2

\* The values tried for field f: around both ends of its clamp, NaN, and the
\* strings "" (Number gives 0) and "abc" (Number gives NaN).
RawSamples(f) ==
    <<Num(ClampBounds[f][1] - 1), Num(ClampBounds[f][1]), Num(ClampBounds[f][1] + 1),
      Num(ClampBounds[f][2]), Num(ClampBounds[f][2] + 1), NaN, Str(Num(0)), Str(NaN)>>

\* validateParams(sanitizeParams(raw)) as updateParams calls it, on a partial
\* parameter object.
CallValidateParams ==
    /\ call = NoCall
    /\ \E S \in SUBSET (NumericFields \cup {"selectionStrategy"}) :
         /\ Cardinality(S) <= MaxFields
         /\ \E k \in [S -> 1..8] :
              /\ "selectionStrategy" \in S => k["selectionStrategy"] = 1
              /\ LET raw == [f \in S |-> IF f = "selectionStrategy" THEN "tournament"
                                         ELSE RawSamples(f)[k[f]]]
                 IN /\ call' = [op |-> "validateParams", params |-> raw]
                    /\ ret' = validateParams(sanitizeParams(raw))
    /\ UNCHANGED <<engine, pending, hung, emitted, lastMsg, task, newParams, observed,
                   channel>>

\* The boards the operators are called on alone.
HarnessBoards == 2..MaxN

\* Math.random() against a crossoverRate of 50: a draw at the rate, which
\* crosses (the test is >), and a draw above it, which copies parent1.
CrossoverDraws == {50, 99}

\* crossover(parent1, parent2) on two permutation parents, any cut points.
CallCrossover ==
    /\ call = NoCall
    /\ \E n \in HarnessBoards :
       \E parent1 \in Perms(n), parent2 \in Perms(n), u \in CrossoverDraws,
          c \in CutPoints(n) :
            /\ call' = [op |-> "crossover", n |-> n, parent1 |-> parent1,
                        parent2 |-> parent2, crossoverRate |-> 50, u |-> u,
                        point1 |-> c[1], point2 |-> c[2]]
            /\ ret' = crossover(parent1, parent2, n, 50, u, c[1], c[2])
    /\ UNCHANGED <<engine, pending, hung, emitted, lastMsg, task, newParams, observed,
                   channel>>

\* calculateFitness(genome) on any genome of columns, permutation or not.
CallCalculateFitness ==
    /\ call = NoCall
    /\ \E n \in HarnessBoards :
       \E genome \in [1..n -> 0..(n - 1)] :
            /\ call' = [op |-> "calculateFitness", n |-> n, genome |-> genome]
            /\ ret' = calculateFitness(genome)
    /\ UNCHANGED <<engine, pending, hung, emitted, lastMsg, task, newParams, observed,
                   channel>>

\* createRandomIndividual() with boardSize n, on any draws of Math.random().
CallCreateRandomIndividual ==
    /\ call = NoCall
    /\ \E n \in HarnessBoards :
       \E draws \in IndexDraws(n) :
            /\ call' = [op |-> "createRandomIndividual", n |-> n, draws |-> draws]
            /\ ret' = createRandomIndividual(n, draws)
    /\ UNCHANGED <<engine, pending, hung, emitted, lastMsg, task, newParams, observed,
                   channel>>

\* mutate(individual) on a permutation genome, any draws; mutationRate 0.5.
CallMutate ==
    /\ call = NoCall
    /\ \E n \in HarnessBoards :
       \E genome \in Perms(n), u \in RateDraws, pos1 \in 0..(n - 1),
          pos2 \in 0..(n - 1) :
            /\ call' = [op |-> "mutate", n |-> n, genome |-> genome,
                        mutationRate |-> 50, u |-> u, pos1 |-> pos1, pos2 |-> pos2]
            /\ ret' = mutate(genome, 50, u, pos1, pos2)
    /\ UNCHANGED <<engine, pending, hung, emitted, lastMsg, task, newParams, observed,
                   channel>>

\* The most individuals of a population the selection operators are called on.
MaxPop == 3

\* Individuals of the smallest board, evaluated: fitness 0, 5 and 6.
HarnessIndividuals ==
    {[genome |-> g, fitness |-> calculateFitness(g)] :
        g \in {<<0, 1, 2, 3>>, <<1, 2, 0, 3>>, <<1, 3, 0, 2>>}}

HarnessPopulations ==
    UNION {[1..len -> HarnessIndividuals] : len \in 1..MaxPop}

\* tournamentSelection() on an evaluated population: tournamentSize 2 or 3,
\* the draws of the sampling loop with room for one index drawn twice.
CallTournamentSelection ==
    /\ call = NoCall
    /\ \E pop \in HarnessPopulations, tournamentSize \in 2..3 :
       \E draws \in [1..(Min(tournamentSize, Len(pop)) + 1) -> 0..(Len(pop) - 1)] :
            LET t == tournamentOf(pop, tournamentSize, draws) IN
            /\ Len(t.contestants) = Min(tournamentSize, Len(pop))
            /\ call' = [op |-> "tournamentSelection", population |-> pop,
                        tournamentSize |-> tournamentSize, draws |-> draws]
            /\ ret' = t
    /\ UNCHANGED <<engine, pending, hung, emitted, lastMsg, task, newParams, observed,
                   channel>>

\* rouletteWheelSelection() on an evaluated population, any draw.
CallRouletteWheelSelection ==
    /\ call = NoCall
    /\ \E pop \in HarnessPopulations :
       \E d \in RouletteDraws(pop) :
            /\ call' = [op |-> "rouletteWheelSelection", population |-> pop,
                        idx |-> d[1], value |-> d[2]]
            /\ ret' = rouletteWheelSelection(pop, d[1], d[2])
    /\ UNCHANGED <<engine, pending, hung, emitted, lastMsg, task, newParams, observed,
                   channel>>

\* An evaluated individual, and a run of copies of it.
Evaluated(g) == [genome |-> g, fitness |-> calculateFitness(g)]

Copies(g, k) == [i \in 1..k |-> Evaluated(g)]

\* Populations createNewGeneration is called on: four individuals (one elite,
\* one replacement), twenty (two elites, the fittest tied and out of order)
\* and ninety (nine elites, 63 individuals at the average fitness 4).
GenerationSamples ==
    {Copies(<<1, 2, 0, 3>>, 4),
     <<Evaluated(<<0, 2, 1, 3>>), Evaluated(<<1, 3, 0, 2>>),
       Evaluated(<<1, 2, 0, 3>>), Evaluated(<<2, 0, 3, 1>>)>>,
     <<Evaluated(<<1, 2, 0, 3>>), Evaluated(<<2, 0, 3, 1>>),
       Evaluated(<<1, 3, 0, 2>>), Evaluated(<<2, 0, 3, 1>>)>>
        \o Copies(<<0, 2, 1, 3>>, 16),
     Copies(<<1, 2, 0, 3>>, 18) \o Copies(<<0, 2, 1, 3>>, 63)
        \o Copies(<<1, 0, 3, 2>>, 9)}

\* The parameters of those calls: the population's size, either strategy.
GenerationParams(pop, strategy) ==
    [boardSize |-> MinBoardSize, populationSize |-> Len(pop),
     selectionStrategy |-> strategy, tournamentSize |-> 2,
     crossoverRate |-> 50, mutationRate |-> 50, maxGenerations |-> MaxGen]

\* The genomes the reproduction loop is taken to push after the elites e: up
\* to three passes, every combination; beyond, the same genome in every pass,
\* or in each pass the genome of the parent standing in the slot it fills.
KidDraws(pop, p, e) ==
    LET k == Max(0, p.populationSize - Len(e))
        genomes == ChildGenomes(pop, p)
    IN IF k <= 3 THEN [1..k -> genomes]
       ELSE {[i \in 1..k |-> g] : g \in genomes}
            \cup {c \in {[i \in 1..k |-> pop[Len(e) + i].genome]} :
                    \A i \in 1..k : c[i] \in genomes}

\* The draws the replacement loop is taken to make on the population r: none
\* when the guard is closed; one pass, every draw; beyond, the same draw in
\* every pass, or one individual written to consecutive indices.
GuardDraws(r, p) ==
    LET k == replaceCount(r) IN
    IF ~lowDiversity(r) THEN {<<>>}
    ELSE IF k <= 1 THEN [1..k -> ReplacementDraws(r, p)]
    ELSE {[i \in 1..k |-> d] : d \in ReplacementDraws(r, p)}
         \cup {[i \in 1..k |-> [individual |-> x, r |-> i - 1]] :
                 x \in FreshIndividuals(p.boardSize)}

\* createNewGeneration() on a sample population, its crossovers returning:
\* the population before checkAndMaintainDiversity() and the one it leaves.
CallCreateNewGeneration ==
    /\ call = NoCall
    /\ \E pop \in GenerationSamples, strategy \in Strategies :
       \E p \in {GenerationParams(pop, strategy)} :
       \E e \in {elites(pop, p)} :
       \E kids \in KidDraws(pop, p, e) :
       \E r \in {reproduceWith(e, kids)} :
       \E draws \in GuardDraws(r, p) :
            /\ call' = [op |-> "createNewGeneration", population |-> pop,
                        params |-> p, kids |-> kids, draws |-> draws]
            /\ ret' = [reproduced |-> r,
                       population |-> checkAndMaintainDiversityWith(r, draws)]
    /\ UNCHANGED <<engine, pending, hung, emitted, lastMsg, task, newParams, observed,
                   channel>>

\* Genome arrays in memory: heap[r] is the array the reference r points to.
\* A new array holding the genome given.
newArray(heap, genome) == [heap |-> Append(heap, genome), ref |-> Len(heap) + 1]

\* Mutant of crossover: without crossover the child holds parent 1's own array.
crossoverArray_shared(heap, r1, r2, n, crossoverRate, u, point1, point2) ==
    IF u > crossoverRate THEN [heap |-> heap, ref |-> r1]
    ELSE newArray(heap,
            crossover(heap[r1], heap[r2], n, crossoverRate, u, point1, point2).genome)

\* crossover on the parents' arrays: the child's genome is a new array in both
\* branches, [...parent1.genome] and Array(n).fill(-1).
crossoverArray(heap, r1, r2, n, crossoverRate, u, point1, point2) ==
    newArray(heap,
        crossover(heap[r1], heap[r2], n, crossoverRate, u, point1, point2).genome)

\* mutate writes individual.genome[pos1] and [pos2] in place.
mutateArray(heap, r, mutationRate, u, pos1, pos2) ==
    [heap EXCEPT ![r] = mutate(heap[r], mutationRate, u, pos1, pos2)]

\* The array pushed for the child: its own if valid, else a new individual's.
pushedArray(heap, r, fresh) ==
    IF validateGenome(heap[r]) THEN [heap |-> heap, ref |-> r]
    ELSE newArray(heap, fresh.genome)

\* One pass of the reproduction loop on a population of two whose arrays are
\* heap[1] and heap[2]: the elite copy { ...sortedPopulation[0] } and
\* bestSolution = { ...population[bestIndex] } share the array of the fitter.
CallReproduce ==
    /\ call = NoCall
    /\ \E g1 \in {<<1, 2, 0, 3>>, <<1, 3, 0, 2>>}, g2 \in {<<1, 2, 0, 3>>, <<1, 3, 0, 2>>},
          parent1 \in 1..2, parent2 \in 1..2, u \in RateDraws,
          c \in CutPoints(MinBoardSize) :
       \E heap \in {<<g1, g2>>} :
       \E top \in {IF calculateFitness(g2) > calculateFitness(g1) THEN 2 ELSE 1} :
       \E o \in {crossover(heap[parent1], heap[parent2], MinBoardSize, 50,
                           u, c[1], c[2])} :
       /\ o.returned
       /\ \E child \in {crossoverArray(heap, parent1, parent2, MinBoardSize, 50,
                                       u, c[1], c[2])} :
          \E v \in RateDraws,
             pos1 \in 0..(MinBoardSize - 1), pos2 \in 0..(MinBoardSize - 1) :
          \E mutated \in {mutateArray(child.heap, child.ref, 50, v, pos1, pos2)} :
          \E fresh \in FreshIndividuals(MinBoardSize) :
          \E pushed \in {pushedArray(mutated, child.ref, fresh)} :
             /\ call' = [op |-> "reproduce", heap |-> heap, population |-> <<1, 2>>,
                         elites |-> <<top>>, bestSolution |-> top,
                         parent1 |-> parent1, parent2 |-> parent2,
                         u |-> u, v |-> v, pos1 |-> pos1, pos2 |-> pos2]
             /\ ret' = [heap |-> pushed.heap, child |-> pushed.ref]
    /\ UNCHANGED <<engine, pending, hung, emitted, lastMsg, task, newParams, observed,
                   channel>>

HarnessNext ==
    \/ CallCrossover
    \/ CallReproduce
    \/ CallCreateNewGeneration
    \/ CallTournamentSelection
    \/ CallRouletteWheelSelection
    \/ CallMutate
    \/ CallCalculateFitness
    \/ CallCreateRandomIndividual
    \/ CallValidateParams

HarnessSpec == Init /\ [][HarnessNext]_vars

\* ------------------------------------------------------------ caller's hook

\* The hook and the worker exchange messages over two queues: what the hook
\* posts waits in inbox until the worker's listener takes it, what the worker
\* posts waits in outbox until the hook's onmessage takes it.  The caller's
\* operations modelled are start, pause and reset; updateParams is left out, so
\* the hook's params stay defaultParams.
MaxInbox == 1
MaxOutbox == 2

Message(type, payload) == [type |-> type, params |-> payload]

\* useEffect on mount: the worker is created and sent init with defaultParams.
HookInit ==
    /\ WorkerLoaded
    /\ inbox = <<Message("init", DefaultParams)>>
    /\ outbox = <<>>
    /\ hook = HookMounted
    /\ awaiting = FALSE

\* A run ends when the worker posts its solution event; it began after every
\* reset() so far when no reset message is still waiting in the inbox.
awaitingAfter(waiting, events) ==
    IF /\ \E i \in 1..Len(events) : events[i].type = "solution"
       /\ \A i \in 1..Len(waiting) : waiting[i].type # "reset"
    THEN FALSE
    ELSE awaiting

\* start()
HookStart ==
    /\ Len(inbox) < MaxInbox
    /\ hook' = [hook EXCEPT !.isRunning = TRUE]
    /\ inbox' = Append(inbox, Message("start", NoPayload))
    /\ UNCHANGED <<worker, outbox, awaiting>>

\* pause()
HookPause ==
    /\ Len(inbox) < MaxInbox
    /\ hook' = [hook EXCEPT !.isRunning = FALSE]
    /\ inbox' = Append(inbox, Message("pause", NoPayload))
    /\ UNCHANGED <<worker, outbox, awaiting>>

\* reset(): the hook's params are defaultParams as long as updateParams is
\* not called.
HookReset ==
    /\ Len(inbox) < MaxInbox
    /\ hook' = [hook EXCEPT !.isRunning = FALSE, !.solution = Null]
    /\ inbox' = Append(inbox, Message("reset", DefaultParams))
    /\ awaiting' = TRUE
    /\ UNCHANGED <<worker, outbox>>

\* The worker's listener takes the oldest message.
WorkerOnMessage ==
    /\ inbox # <<>>
    /\ LET m == Head(inbox)
       IN  IF m.type = "init" THEN HandleInit(m.params)
           ELSE IF m.type = "start" THEN HandleStart
           ELSE IF m.type = "pause" THEN HandlePause
           ELSE IF m.type = "reset" THEN HandleReset(m.params)
           ELSE HandleOther
    /\ inbox' = Tail(inbox)
    /\ outbox' = outbox \o emitted'
    /\ Len(outbox') <= MaxOutbox
    /\ awaiting' = awaitingAfter(inbox', emitted')
    /\ UNCHANGED hook

\* The worker runs a deferred callback.
WorkerCallback ==
    /\ RunCallback
    /\ outbox' = outbox \o emitted'
    /\ Len(outbox') <= MaxOutbox
    /\ awaiting' = awaitingAfter(inbox, emitted')
    /\ UNCHANGED <<inbox, hook>>

\* onmessage: the hook takes the oldest event.
HookOnMessage ==
    /\ outbox # <<>>
    /\ LET e == Head(outbox)
       IN  hook' = IF e.type = "stats" THEN [hook EXCEPT !.stats = e.data]
                   ELSE IF e.type = "solution"
                   THEN [hook EXCEPT !.solution = e.data, !.isRunning = FALSE]
                   ELSE [hook EXCEPT !.error = e.data, !.isRunning = FALSE]
    /\ outbox' = Tail(outbox)
    /\ UNCHANGED <<worker, inbox, awaiting>>

HookNext ==
    \/ HookStart
    \/ HookPause
    \/ HookReset
    \/ WorkerOnMessage
    \/ WorkerCallback
    \/ HookOnMessage

HookSpec == HookInit /\ [][HookNext]_vars

\* --------------------------------------------------------------------- claims

HasType(events, t) == \E i \in 1..Len(events) : events[i].type = t

StepCompleted == task \in {"start", "timer"} /\ emitted # <<>>

\* C1: a run that has been started and not paused ends with a solution event
\* after at most maxGenerations steps: while the engine is running, the step in
\* hand returns, a further step is scheduled, and the counter is below the limit.
C1_StartedRunTerminates ==
    running => (~hung /\ pending >= 1 /\ generation < params.maxGenerations)

\* What holds of every running engine whose step returned.
C1_RunningProgresses ==
    (running /\ ~hung) => (pending >= 1 /\ generation < params.maxGenerations)

\* C2: whatever crossover returns for two permutation parents, any cut points
\* and any draw, is a permutation of [0, n).
C2_CrossoverPermutation ==
    (call.op = "crossover" /\ ret.returned) => IsPermutation(ret.genome, call.n)

\* A crossover that followed the mapping: a position outside the segment holds
\* a value other than parent2's.
C2_Witness ==
    /\ call.op = "crossover"
    /\ call.u <= call.crossoverRate
    /\ ret.returned
    /\ \E i \in 1..call.n :
          /\ ~(i - 1 >= call.point1 /\ i - 1 <= call.point2)
          /\ ret.genome[i] # call.parent2[i]

\* C3: between tasks every genome of the population, the best-ever genome and
\* every bestGenome posted is a permutation of [0, boardSize).
C3_GenomesArePermutations ==
    /\ \A i \in 1..Len(population) :
          IsPermutation(population[i].genome, params.boardSize)
    /\ bestSolution # Null => IsPermutation(bestSolution.genome, params.boardSize)
    /\ \A i \in 1..Len(emitted) :
          /\ emitted[i].type = "stats" =>
                IsPermutation(emitted[i].data.bestGenome, params.boardSize)
          /\ emitted[i].type = "solution" =>
                IsPermutation(emitted[i].data.genome, params.boardSize)

\* A second generation whose bred child is no individual the factory made.
C3_Witness ==
    /\ StepCompleted
    /\ generation >= 2
    /\ \A x \in FreshIndividuals(params.boardSize) :
          population[2].genome # x.genome

\* C4: without init or reset, the best-ever fitness never decreases, and the
\* best-ever individual is replaced only by the current population's best when
\* that one is strictly fitter.
C4_BestEverMonotone ==
    [][task' \notin {"init", "reset"} =>
         /\ bestSolution'.fitness >= bestSolution.fitness
         /\ (bestSolution # Null /\ bestSolution' # bestSolution) =>
               /\ Scan(population').bestFitness > bestSolution.fitness
               /\ bestSolution' = population'[Scan(population').bestIndex]]_vars

\* A step whose population's best is below the best ever recorded.
C4_Witness ==
    /\ StepCompleted
    /\ emitted[1].data.bestFitness < bestSolution.fitness

\* C5: a step that ends solved or at the generation limit posts its stats and
\* then one solution event carrying the best-ever individual, leaves the engine
\* not running and schedules nothing; any other step posts its stats alone.
\* With maxGenerations = 1 the first step posts stats of generation 1 and the
\* solution.
C5_StepTermination ==
    [][(task' \in {"start", "timer"} /\ generation' = generation + 1 /\ ~hung') =>
         /\ emitted'[1].type = "stats"
         /\ emitted'[1].data.generation = generation'
         /\ IF emitted'[1].data.solved \/ generation' >= params'.maxGenerations
            THEN /\ emitted' = <<emitted'[1], SolutionEvent(bestSolution')>>
                 /\ ~running'
                 /\ pending' = pending - (IF task' = "timer" THEN 1 ELSE 0)
            ELSE /\ Len(emitted') = 1
                 /\ pending' = pending + (IF task' = "timer" THEN 0 ELSE 1)
         /\ (params.maxGenerations = 1 /\ generation = 0) =>
               /\ Len(emitted') = 2
               /\ emitted'[1].data.generation = 1]_vars

\* A callback step that ended the run at the generation limit, unsolved.
C5_Witness ==
    /\ task = "timer"
    /\ Len(emitted) = 2
    /\ emitted[2].type = "solution"
    /\ ~emitted[1].data.solved

\* C6: when pause is sent right after start, at most one stats event is posted
\* before the engine stops: the start handler posts one, so no callback that
\* posts another runs between the start and the pause.
C6_PauseAfterStart ==
    [][(lastMsg = "start" /\ task' = "pause") =>
          ~(task = "timer" /\ HasType(emitted, "stats"))]_vars

\* C7 as stated: from a pause on, until a start is handled, no stats and no
\* solution event is posted.
C7_NoEventWhilePaused ==
    [][(lastMsg = "pause" /\ task' # "start") =>
          (emitted' = emitted \/
             (~HasType(emitted', "stats") /\ ~HasType(emitted', "solution")))]_vars

\* C7 amended: while the engine is not running and until a start is handled,
\* no generation step runs and no solution event is posted, the only stats
\* posted are the generation-0 statistics of init and reset, and a callback
\* that fires changes nothing and posts nothing.
C7_NoStepWhilePaused ==
    [][(~running /\ task' # "start") =>
         /\ generation' <= generation
         /\ ~running'
         /\ (task' \notin {"init", "reset"} =>
               /\ population' = population
               /\ (emitted' = emitted \/ ~HasType(emitted', "stats")))
         /\ (emitted' = emitted \/ ~HasType(emitted', "solution"))
         /\ (task' \in {"init", "reset"} => generation' = 0)
         /\ (task' = "timer" /\ pending' # pending =>
               UNCHANGED engine /\ emitted' = <<>>)]_vars

\* A pending callback fired after the pause and did nothing.
C7_Witness ==
    /\ lastMsg = "pause"
    /\ task = "timer"
    /\ emitted = <<>>
    /\ generation >= 1

\* C8: an unrecognized message posts exactly one error event and leaves the
\* parameters, the population, the counter, the best-ever individual, the
\* running flag and the pending callbacks as they were; start can then be
\* handled as before it.
C8_UnknownMessage ==
    /\ [][task' = "other" =>
            /\ emitted' = <<ErrorEvent>>
            /\ UNCHANGED <<engine, pending, hung>>]_vars
    /\ [](task = "other" /\ generation < MaxGeneration /\ pending < MaxPending
            => ENABLED StartMsg)

\* An unrecognized message handled while the engine runs.
C8_Witness == task = "other" /\ running /\ pending >= 1

\* C9: after an unrecognized message the running flag is false.
C9_UnknownStopsEngine == task = "other" => ~running

\* C10: after init, whatever the state before, the counter is 0, the population
\* is the one just built, its generation-0 stats were posted, and the engine is
\* not running: no step runs until a start is handled.
C10_InitLeavesInitialized ==
    lastMsg = "init" =>
        /\ generation = 0
        /\ ~running
        /\ Len(population) = params.populationSize
        /\ (task = "init" =>
              emitted = <<StatsEvent(calculateStatistics(population, params, 0))>>)

\* What the init case leaves from the state the step starts in, whatever the
\* payload and the factory's draws.
InitOutcome ==
    /\ \E payload \in Payloads :
       \E p \in {paramsAfter(params, payload)} :
         \E pop \in InitialPopulations(p) :
            /\ params' = p
            /\ generation' = 0
            /\ population' = pop
            /\ bestSolution' = bestAfter(pop, Null)
            /\ emitted' = <<StatsEvent(calculateStatistics(pop, p, 0))>>
    /\ UNCHANGED <<running, pending, hung>>

\* C11: reset leaves what init leaves from the same state with the same
\* payload: generation 0, a newly built population, a best-ever individual
\* taken from that population, and an engine that is not advancing.
C11_ResetIsInit ==
    [][task' = "reset" =>
         /\ generation' = 0
         /\ ~running'
         /\ population' \in InitialPopulations(params')
         /\ bestSolution' = population'[Scan(population').bestIndex]
         /\ InitOutcome]_vars

\* C12: a start that follows init or reset keeps the population they built:
\* the first generation is bred from the population whose statistics they
\* reported.
C12_StartKeepsPopulation ==
    [][(task' = "start" /\ task \in {"init", "reset"} /\ ~hung') =>
          population' \in NewGeneration(population, params).populations]_vars

\* C13: in every stats event posted, solved is true exactly when bestFitness is
\* boardSize * (boardSize - 1) / 2 for the parameters in force.
C13_SolvedIffMaxFitness ==
    \A i \in 1..Len(emitted) :
        emitted[i].type = "stats" =>
            (emitted[i].data.solved <=>
               emitted[i].data.bestFitness * 2 =
                   params.boardSize * (params.boardSize - 1))

\* A generation step posted stats of a solved board, and the stats of its
\* unsolved best are reachable too (C5_Witness).
C13_Witness ==
    /\ StepCompleted
    /\ emitted[1].data.solved
    /\ emitted[1].data.generation >= 1

\* Queens i and j (1-based rows) share a column or a diagonal.
Attacks(genome, i, j) ==
    \/ genome[i] = genome[j]
    \/ Abs(i - j) = Abs(genome[i] - genome[j])

\* The attacking pairs (i, j), i < j, met one at a time from pair (i, j) on,
\* row by row.
RECURSIVE AttackingPairsFrom(_, _, _)
AttackingPairsFrom(genome, i, j) ==
    IF i >= Len(genome) THEN 0
    ELSE IF j > Len(genome) THEN AttackingPairsFrom(genome, i + 1, i + 2)
    ELSE (IF Attacks(genome, i, j) THEN 1 ELSE 0)
           + AttackingPairsFrom(genome, i, j + 1)

\* C14: for every genome of length n, calculateFitness returns n(n-1)/2 minus
\* the number of pairs i < j in the same column or on the same diagonal, each
\* pair counted once.
C14_FitnessCountsPairs ==
    call.op = "calculateFitness" =>
        /\ 2 * (ret + AttackingPairsFrom(call.genome, 1, 2)) = call.n * (call.n - 1)
        /\ Len(call.genome) = call.n

\* A genome with a column conflict and a diagonal conflict, and a pair that
\* is neither.
C14_Witness ==
    /\ call.op = "calculateFitness"
    /\ \E i, j \in 1..call.n : i < j /\ call.genome[i] = call.genome[j]
    /\ \E i, j \in 1..call.n :
          /\ i < j
          /\ call.genome[i] # call.genome[j]
          /\ Abs(i - j) = Abs(call.genome[i] - call.genome[j])
    /\ \E i, j \in 1..call.n : i < j /\ ~Attacks(call.genome, i, j)

\* C15: for every genome of length n, permutation or not, calculateFitness
\* returns an integer from 0 to n(n-1)/2.
C15_FitnessRange ==
    call.op = "calculateFitness" =>
        /\ ret \in Int
        /\ 0 <= ret
        /\ 2 * ret <= call.n * (call.n - 1)

\* Both ends of the range are returned: a genome whose every pair attacks, and
\* in other calls a genome with no attacking pair (fitness n(n-1)/2).
C15_Witness ==
    /\ call.op = "calculateFitness"
    /\ call.n >= MinBoardSize
    /\ ret = 0

\* C16: for every board size n and every sequence of draws,
\* createRandomIndividual returns a genome of length n holding each value of
\* 0 .. n-1 exactly once.
C16_FactoryPermutation ==
    call.op = "createRandomIndividual" =>
        /\ Len(ret.genome) = call.n
        /\ \A v \in 0..(call.n - 1) :
              Cardinality({i \in 1..call.n : ret.genome[i] = v}) = 1

\* A valid board, draws that are not all 0: the genome is not the identity.
C16_Witness ==
    /\ call.op = "createRandomIndividual"
    /\ call.n >= MinBoardSize
    /\ \E i \in 1..call.n : call.draws[i] # 0
    /\ ret.genome[1] # 0

\* The documented range of each numeric parameter, rates in percent.
DocumentedRange ==
    [boardSize |-> <<4, 50>>, populationSize |-> <<10, 1000>>,
     tournamentSize |-> <<2, 20>>, crossoverRate |-> <<0, 100>>,
     mutationRate |-> <<0, 100>>, maxGenerations |-> <<10, 100000>>]

\* Number x is the number given, clamped into the documented range of field f.
ClampedInto(f, given, x) ==
    /\ ~x.str
    /\ ~x.nan
    /\ DocumentedRange[f][1] <= x.val
    /\ x.val <= DocumentedRange[f][2]
    /\ (~given.nan /\ given.val < DocumentedRange[f][1]) => x.val = DocumentedRange[f][1]
    /\ (~given.nan /\ given.val > DocumentedRange[f][2]) => x.val = DocumentedRange[f][2]
    /\ (/\ ~given.nan
        /\ given.val >= DocumentedRange[f][1]
        /\ given.val <= DocumentedRange[f][2]) => x.val = given.val

\* C17: validateParams returns, for every numeric field present in its input,
\* a value inside the field's documented range: the input when it is in range,
\* the nearest bound otherwise; it returns the fields it was given.
C17_ValidateClamps ==
    call.op = "validateParams" =>
        /\ DOMAIN ret = DOMAIN call.params
        /\ \A f \in DOMAIN ret \cap NumericFields :
              ClampedInto(f, ToNumber(call.params[f]), ret[f])

\* C18: the numeric parameters the engine takes from the payload of an init or
\* reset message lie in their documented ranges.
C18_ParamsInRange ==
    [][(task' \in {"init", "reset"} /\ params' # params) =>
          \A f \in NumericFields :
              /\ DocumentedRange[f][1] <= params'[f]
              /\ params'[f] <= DocumentedRange[f][2]]_vars

\* C19: for any two permutation parents and any cut points, crossover
\* returns: its fill loop ends.
C19_CrossoverTerminates ==
    call.op = "crossover" => ret.returned

\* Position i (1-based) lies in the copied segment of the crossover called.
InSegment(i) == i - 1 >= call.point1 /\ i - 1 <= call.point2

\* C20: when crossover is performed and returns, the child holds parent1's
\* value at every position of the segment, and parent2's value at every
\* position outside it whose parent2 value is not in the segment copied.
C20_SegmentAndRest ==
    (call.op = "crossover" /\ call.u <= call.crossoverRate /\ ret.returned) =>
        \A i \in 1..call.n :
            /\ InSegment(i) => ret.genome[i] = call.parent1[i]
            /\ (/\ ~InSegment(i)
                /\ \A j \in 1..call.n :
                      InSegment(j) => call.parent1[j] # call.parent2[i])
                  => ret.genome[i] = call.parent2[i]

\* A crossover of two parents that differ inside the segment, with a position
\* outside it that takes parent2's value and another that cannot.
C20_Witness ==
    /\ call.op = "crossover"
    /\ call.u <= call.crossoverRate
    /\ ret.returned
    /\ \E i \in 1..call.n : InSegment(i) /\ call.parent1[i] # call.parent2[i]
    /\ \E i \in 1..call.n : ~InSegment(i) /\ ret.genome[i] = call.parent2[i]
    /\ \E i \in 1..call.n : ~InSegment(i) /\ ret.genome[i] # call.parent2[i]

\* The positions (1-based) at which two genomes of the same length differ.
DiffersAt(g, h) == {i \in 1..Len(g) : g[i] # h[i]}

\* C21: for any permutation genome and any draws, the genome after mutate is a
\* permutation of the same values.
C21_MutatePermutation ==
    call.op = "mutate" =>
        /\ Len(ret) = call.n
        /\ IsPermutation(ret, call.n)
        /\ \A v \in 0..(call.n - 1) :
              Cardinality({i \in 1..call.n : ret[i] = v})
                = Cardinality({i \in 1..call.n : call.genome[i] = v})

\* The mutation trial fired and swapped two different rows.
C21_Witness ==
    /\ call.op = "mutate"
    /\ call.u <= call.mutationRate
    /\ call.pos1 # call.pos2
    /\ Cardinality(DiffersAt(call.genome, ret)) = 2

\* C22: when the mutation trial fires, the two positions chosen are distinct
\* and the mutated genome differs from the original in exactly two positions.
C22_MutateSwapsTwo ==
    (call.op = "mutate" /\ call.u <= call.mutationRate) =>
        /\ call.pos1 # call.pos2
        /\ Cardinality(DiffersAt(call.genome, ret)) = 2

C29_GenerationCounter ==
    [][/\ generation >= 0
       /\ generation' >= 0
       /\ \/ generation' = generation
          \/ generation' = generation + 1 /\ task' \in {"start", "timer"}
          \/ generation' = 0 /\ task' \in {"init", "reset"}
       /\ task' \in {"start", "pause", "other", "timer"} => generation' >= generation
       /\ task' = "start" => generation' = generation + 1
       /\ (task' = "timer" /\ pending' # pending - 1) => generation' = generation + 1
       /\ (task' \in {"start", "timer"} /\ HasType(emitted', "stats")) =>
             /\ generation' = generation + 1
             /\ emitted'[1].data.generation = generation + 1]_vars

\* Two steps in a row: stats of generation 2 follow those of generation 1.
C29_Witness ==
    /\ task = "timer"
    /\ generation = 2
    /\ HasType(emitted, "stats")
    /\ emitted[1].data.generation = 2

\* C30: every stats event posted summarizes the population it was computed
\* from: bestFitness is the maximum and worstFitness the minimum fitness,
\* averageFitness the sum of the fitness over the population size, bestGenome
\* the genome of the first individual of maximum fitness, generation the
\* counter.
C30_StatsSummarize ==
    \A e \in 1..Len(emitted) :
        emitted[e].type = "stats" =>
            LET d == emitted[e].data IN
            /\ d.generation = generation
            /\ \A j \in 1..Len(population) :
                  /\ population[j].fitness <= d.bestFitness
                  /\ population[j].fitness >= d.worstFitness
            /\ \E j \in 1..Len(population) : population[j].fitness = d.worstFitness
            /\ \E j \in 1..Len(population) :
                  /\ population[j].fitness = d.bestFitness
                  /\ \A k \in 1..(j - 1) : population[k].fitness < d.bestFitness
                  /\ d.bestGenome = population[j].genome
            /\ d.averageFitness.den = Len(population)
            /\ d.averageFitness.num = SumFitness(population, 1)

\* Stats of a step whose two fittest individuals tie with different genomes.
C30_Witness ==
    /\ StepCompleted
    /\ Len(population) >= 2
    /\ population[1].fitness = population[2].fitness
    /\ population[1].genome # population[2].genome
    /\ emitted[1].data.bestGenome = population[1].genome

\* C23: tournament selection samples exactly min(tournamentSize,
\* populationSize) pairwise-distinct indices of the population and returns a
\* sampled individual of maximum fitness among them, the first in sampling
\* order when several tie.
C23_TournamentSelection ==
    call.op = "tournamentSelection" =>
        LET pop == call.population
            c == ret.contestants
            fit(i) == pop[c[i] + 1].fitness
        IN /\ Len(c) = IF call.tournamentSize <= Len(pop)
                       THEN call.tournamentSize ELSE Len(pop)
           /\ \A i \in 1..Len(c) : c[i] \in 0..(Len(pop) - 1)
           /\ \A i, j \in 1..Len(c) : i # j => c[i] # c[j]
           /\ \E w \in 1..Len(c) :
                 /\ ret.index = c[w] + 1
                 /\ \A i \in 1..Len(c) : fit(i) <= fit(w)
                 /\ \A i \in 1..(w - 1) : fit(i) < fit(w)

\* A tournament in which an index was drawn twice and two contestants tie for
\* the best, the one sampled first standing later in the population.
C23_Witness ==
    /\ call.op = "tournamentSelection"
    /\ \E i, j \in 1..Len(call.draws) : i < j /\ call.draws[i] = call.draws[j]
    /\ Len(ret.contestants) >= 2
    /\ ret.contestants[1] > ret.contestants[2]
    /\ call.population[ret.contestants[1] + 1].fitness
         = call.population[ret.contestants[2] + 1].fitness
    /\ ret.index = ret.contestants[1] + 1

\* The fitness of individuals 1 .. j summed.
RECURSIVE PrefixFitness(_, _)
PrefixFitness(pop, j) == IF j = 0 THEN 0 ELSE PrefixFitness(pop, j - 1) + pop[j].fitness

\* C24: roulette-wheel selection returns a member of the population: the one
\* drawn when totalFitness is 0, otherwise the first individual at which the
\* drawn value minus the fitness summed up to it is not positive.
C24_RouletteSelection ==
    call.op = "rouletteWheelSelection" =>
        LET pop == call.population IN
        /\ ret \in 1..Len(pop)
        /\ PrefixFitness(pop, Len(pop)) = 0 => ret = call.idx + 1
        /\ PrefixFitness(pop, Len(pop)) # 0 =>
              /\ call.value - PrefixFitness(pop, ret) <= 0
              /\ \A j \in 1..(ret - 1) : call.value - PrefixFitness(pop, j) > 0

\* A draw that lands exactly on the end of the second individual's share.
C24_Witness ==
    /\ call.op = "rouletteWheelSelection"
    /\ ret = 2
    /\ call.population[1].fitness > 0
    /\ call.value = PrefixFitness(call.population, 2)

\* The place (1-based) of individual i in the descending order of fitness
\* that keeps individuals of equal fitness in their order.
Rank(pop, i) ==
    1 + Cardinality({j \in 1..Len(pop) :
            \/ pop[j].fitness > pop[i].fitness
            \/ pop[j].fitness = pop[i].fitness /\ j < i})

\* C25: after the reproduction phase, before the diversity guard, the first
\* max(1, floor(0.1 * populationSize)) slots of the new population hold the
\* top individuals of the previous population, genome and fitness unchanged,
\* in descending fitness order, equal fitness in the previous order.
C25_ElitesKept ==
    call.op = "createNewGeneration" =>
        LET n == IF call.params.populationSize \div 10 >= 1
                 THEN call.params.populationSize \div 10 ELSE 1
        IN /\ Len(ret.reproduced) >= n
           /\ \A slot \in 1..n :
                 \E i \in 1..Len(call.population) :
                    /\ Rank(call.population, i) = slot
                    /\ ret.reproduced[slot] = call.population[i]

\* Two elites of equal fitness and different genomes, taken from a population
\* whose first individual is not among them.
C25_Witness ==
    /\ call.op = "createNewGeneration"
    /\ call.params.populationSize = 20
    /\ ret.reproduced[1].fitness = ret.reproduced[2].fitness
    /\ ret.reproduced[1].genome # ret.reproduced[2].genome
    /\ call.population[1].fitness < ret.reproduced[1].fitness

\* C26: after a generation step population[0] holds the genome of the previous
\* population's best individual (the first of the fittest) with the previous
\* maximum fitness, whatever the diversity guard replaced.
C26_BestSurvives ==
    call.op = "createNewGeneration" =>
        \E i \in 1..Len(call.population) :
            /\ Rank(call.population, i) = 1
            /\ ret.population[1].genome = call.population[i].genome
            /\ ret.population[1].fitness = call.population[i].fitness

\* The guard has replaced an individual, index 0 excepted.
C26_Witness ==
    /\ call.op = "createNewGeneration"
    /\ ret.population # ret.reproduced
    /\ \E i \in 1..Len(call.draws) : call.draws[i].r = 0

\* The individuals whose fitness equals the average (within 0.001 of it, for
\* populations under 1000), and the slots the guard has changed.
AtAverage(pop) ==
    LET total == PrefixFitness(pop, Len(pop)) IN
    {i \in 1..Len(pop) : pop[i].fitness * Len(pop) = total}

ChangedSlots == {i \in 1..Len(ret.reproduced) : ret.population[i] # ret.reproduced[i]}

\* C27: the diversity guard changes the population only when the individuals
\* at the average fitness number strictly more than 0.7 * populationSize; it
\* then makes exactly floor(0.3 * populationSize) replacement draws, at most
\* that many individuals change, each to an evaluated permutation, and the
\* population keeps its size.
C27_GuardThreshold ==
    call.op = "createNewGeneration" =>
        LET size == Len(ret.reproduced) IN
        /\ Len(ret.population) = size
        /\ ChangedSlots # {} => Cardinality(AtAverage(ret.reproduced)) * 10 > 7 * size
        /\ call.draws # <<>> => Len(call.draws) = (3 * size) \div 10
        /\ Cardinality(ChangedSlots) <= (3 * size) \div 10
        /\ \A i \in ChangedSlots :
              /\ IsPermutation(ret.population[i].genome, call.params.boardSize)
              /\ 2 * (ret.population[i].fitness
                        + AttackingPairsFrom(ret.population[i].genome, 1, 2))
                    = call.params.boardSize * (call.params.boardSize - 1)

\* C31: the individual a solution event carries is at least as fit as the
\* bestFitness of every stats event posted since the last init or reset.
C31_SolutionIsBestEver ==
    \A i \in 1..Len(emitted) :
        emitted[i].type = "solution" => emitted[i].data.fitness >= statsBest

\* A run ends on a population less fit than one reported earlier in it: the
\* solution event carries the earlier individual.
C31_Witness ==
    /\ HasType(emitted, "solution")
    /\ \E i \in 1..Len(emitted) :
          /\ emitted[i].type = "solution"
          /\ emitted[i].data.fitness > postedBest(emitted)
          /\ emitted[i].data.fitness = statsBest

\* C32: the parameters change only when an init or reset carrying a params
\* payload is handled, and then become that payload; start, pause,
\* unrecognized messages, generation steps and init or reset without a payload
\* leave them as they are.
C32_ParamsFrame ==
    [][/\ (params' # params => task' \in {"init", "reset"} /\ newParams' # NoPayload)
       /\ (task' \in {"init", "reset"} /\ newParams' # NoPayload => params' = newParams')
       /\ (task' \in {"init", "reset"} /\ newParams' = NoPayload => params' = params)
       /\ (task' \in {"start", "pause", "other", "timer"} => params' = params)]_vars

\* A reset with a payload has replaced parameters set by an earlier payload.
C32_Witness ==
    /\ task = "reset"
    /\ newParams # NoPayload
    /\ params = newParams
    /\ params # DefaultParams

\* C33: reproduction modifies no existing individual: after crossover (with
\* or without crossing) and mutation of the child, the genomes of both
\* parents, of every individual of the parent population, of the elites carried
\* over and of the best-ever individual are what they were.
C33_ParentsUntouched ==
    call.op = "reproduce" =>
        \A r \in {call.population[i] : i \in 1..Len(call.population)}
                   \cup {call.elites[i] : i \in 1..Len(call.elites)}
                   \cup {call.bestSolution, call.parent1, call.parent2} :
            ret.heap[r] = call.heap[r]

\* The child is a copy of parent 1 (no crossover) that mutation then changed.
C33_Witness ==
    /\ call.op = "reproduce"
    /\ call.u > 50
    /\ call.v <= 50
    /\ call.pos1 # call.pos2
    /\ call.parent1 = call.bestSolution
    /\ ret.heap[ret.child] # call.heap[call.parent1]

\* C34: at most one deferred generation-step callback is pending at any
\* time, under every interleaving of start, pause, reset and init with the
\* callback.
C34_OneCallbackPending == pending <= 1

\* C35: the generation counter never exceeds maxGenerations, in the engine's
\* state and in the stats events it posts, a start sent to a terminated engine
\* included.
C35_GenerationBounded ==
    ~hung =>
        /\ generation <= params.maxGenerations
        /\ \A i \in 1..Len(emitted) :
              emitted[i].type = "stats" =>
                  emitted[i].data.generation <= params.maxGenerations

\* C36: every stats event with solved = true is followed at once by a
\* solution event, the generation-0 stats events of init and reset included.
C36_SolvedThenSolution ==
    \A i \in 1..Len(emitted) :
        (emitted[i].type = "stats" /\ emitted[i].data.solved) =>
            (i < Len(emitted) /\ emitted[i + 1].type = "solution")

\* C37: of two successive generation steps with no init or reset between
\* them, the second reports a bestFitness no lower than the first.
C37_BestFitnessMonotone ==
    [][(task' \in {"start", "timer"} /\ HasType(emitted', "stats") /\ stepBest >= 0)
          => postedBest(emitted') >= stepBest]_vars

\* A second step has reported after a first, a pause and a start between them.
C37_Witness ==
    /\ task = "start"
    /\ generation >= 2
    /\ HasType(emitted, "stats")
    /\ stepBest >= 0
    /\ stepBest < maxPairs(params.boardSize)

C39_SolutionStaysNull == awaiting => hook.solution = Null

====
